---- MODULE Spec2Model ----
(***************************************************************************)
(* Model of HashyStepTable (src/hashy_step_table.py), the growable open-   *)
(* addressing table.  Keys are strings, modelled as sequences of character *)
(* codes so that hash and hash2 are computed as the code computes them.    *)
(* Array index i of the code is index i + 1 of the TLA+ sequence.          *)
(***************************************************************************)
EXTENDS Integers, Sequences, FiniteSets, TLC

(* ---------------------------- bounds ----------------------------------- *)
\* count is not driven below -MaxNeg by deletes of absent keys
MaxNeg == 1
\* number of set and delete calls made on one table
MaxCalls == 5

\* "ab", "cd", "ef", "gh" as character codes: hash2 gives the steps 12, 2, 5, 8,
\* so "ab" does not move in a table of 3 or 4 slots, "gh" of 4, "ef" of 5
KeyAB == <<97, 98>>
KeyCD == <<99, 100>>
KeyEF == <<101, 102>>
KeyGH == <<103, 104>>
Keys == {KeyAB, KeyCD, KeyEF, KeyGH}
\* the empty string, and the keys of the calls that may pass it
EmptyKey == <<>>
AnyKeys == Keys \cup {EmptyKey}
\* the table never inspects a value: two are enough to tell an update from
\* the value it replaces
Values == {1, 2}
\* the size ladders a table is constructed with (sizes argument of __init__)
Ladders == {<<5, 13>>, <<3, 4>>, <<3, 5, 13>>}
\* a ladder passed to HashyStepTable(sizes) whose first capacity is 4
GrowthLadder == <<4, 7>>
\* the scenario of the specification: inserts of "ab", "cd", "ef", "gh"
Scenario == <<KeyAB, KeyCD, KeyEF, KeyGH>>

(* ---------------------------- slots ------------------------------------ *)
\* the class object Sentinel, as a key and as a value
SentinelKey == <<-1>>
SentinelVal == -1
\* None
NoneSlot == <<"None", <<>>, 0>>
\* a tuple (key, value)
Tuple(k, v) == <<"tuple", k, v>>
\* (Sentinel, Sentinel), what __delitem__ stores
Tombstone == Tuple(SentinelKey, SentinelVal)
IsNone(slot) == slot[1] = "None"
\* variant of IsSentinel: the test recognises what __delitem__ stores
IsSentinelReclaim(slot) == slot = Tombstone
\* `self.array[position] is Sentinel`: the slot is the class object itself.
\* Slots hold None or tuples only, so the test is false for every slot.
IsSentinel(slot) == slot[1] = "Sentinel"
ArrayR(n) == [i \in 1..n |-> NoneSlot]

VARIABLES TABLE_SIZES, size_index, array, count, last, latest, scen, stray, calls
\* a HashyPerfectionTable (src/hashy_perfection_table.py): its array and
\* count, the most recent call on it, and the number of set and delete calls
VARIABLES pt_array, pt_count, pt_last, pt_calls
\* a Season (src/season.py): the team numbers of its teams in array order,
\* its schedule, its game counter w, the most recent call on it, and the
\* number of delay_week_of_games calls; the position of a running
\* simulate_season call, the games it and earlier calls have simulated, in
\* order, and the number of simulate_season calls
VARIABLES sn_teams, sn_schedule, sn_w, sn_last, sn_delays
VARIABLES sn_pc, sn_played, sn_runs
\* a Team (src/team.py): the array and count of its statistics table, the
\* queue stored under LAST_FIVE_RESULTS, the GAMES_PLAYED statistic of each
\* of its players, the most recent call, and the results of the updates
\* requested since the statistics were last reset
VARIABLES tm_statistics, tm_count, tm_results, tm_players, tm_last, tm_made
step_vars == <<TABLE_SIZES, size_index, array, count, last, latest, scen, stray, calls>>
pt_vars == <<pt_array, pt_count, pt_last, pt_calls>>
sn_vars == <<sn_teams, sn_schedule, sn_w, sn_last, sn_delays, sn_pc, sn_played, sn_runs>>
tm_vars == <<tm_statistics, tm_count, tm_results, tm_players, tm_last, tm_made>>
vars == <<step_vars, pt_vars, sn_vars, tm_vars>>

table_size(arr) == Len(arr)

(* ---------------------------- hashing ---------------------------------- *)
HASH_BASE == 31
RECURSIVE HashLoop(_, _, _, _, _)
HashLoop(key, i, value, a, ts) ==
    IF i > Len(key) THEN value
    ELSE HashLoop(key, i + 1, (key[i] + a * value) % ts, (a * HASH_BASE) % (ts - 1), ts)
hash(key, ts) == HashLoop(key, 1, 0, 31415, ts)
hash2(key) == (4 * Len(key) * key[1] + 3) % 13
\* `key[0]` raises IndexError on the empty string
FirstCharFails(key) == Len(key) = 0

(* ---------------------------- keys / values ---------------------------- *)
RECURSIVE KeysFrom(_, _)
KeysFrom(arr, x) ==
    IF x > Len(arr) THEN <<>>
    ELSE IF ~IsNone(arr[x]) THEN <<arr[x][2]>> \o KeysFrom(arr, x + 1)
    ELSE KeysFrom(arr, x + 1)
keys(arr) == KeysFrom(arr, 1)
RECURSIVE ValuesFrom(_, _)
ValuesFrom(arr, x) ==
    IF x > Len(arr) THEN <<>>
    ELSE IF ~IsNone(arr[x]) THEN <<arr[x][3]>> \o ValuesFrom(arr, x + 1)
    ELSE ValuesFrom(arr, x + 1)
values(arr) == ValuesFrom(arr, 1)
InSeq(x, s) == \E i \in 1..Len(s) : s[i] = x

(* ---------------------------- probing ---------------------------------- *)
\* Result of _hashy_probe: kind "pos" with a position, or the exception
\* raised, or "None" when the function falls off its end without a return.
RECURSIVE ProbeLoop(_, _, _, _, _, _)
ProbeLoop(arr, key, is_insert, position, step_size, n) ==
    IF n = 0
    THEN IF is_insert THEN [kind |-> "FullError", pos |-> -1]
         ELSE IF ~InSeq(key, keys(arr)) THEN [kind |-> "KeyError", pos |-> -1]
         ELSE [kind |-> "None", pos |-> -1]
    ELSE LET slot == arr[position + 1]
             next == (position + step_size) % table_size(arr)
         IN IF IsNone(slot)
            THEN IF is_insert THEN [kind |-> "pos", pos |-> position]
                 ELSE ProbeLoop(arr, key, is_insert, next, step_size, n - 1)
            ELSE IF IsSentinel(slot)
            THEN IF is_insert THEN [kind |-> "pos", pos |-> position]
                 ELSE ProbeLoop(arr, key, is_insert, position, step_size, n - 1)
            ELSE IF slot[2] = key THEN [kind |-> "pos", pos |-> position]
            ELSE ProbeLoop(arr, key, is_insert, next, step_size, n - 1)
_hashy_probe(arr, key, is_insert) ==
    IF FirstCharFails(key) THEN [kind |-> "IndexError", pos |-> -1]
    ELSE ProbeLoop(arr, key, is_insert, hash(key, table_size(arr)), hash2(key), table_size(arr))

(* ---------------------------- __getitem__ ------------------------------ *)
\* res "ok" with the value in ret, "KeyError", "IndexError" from hash2, or
\* "TypeError" when the probe returned None and the array is indexed with it.
GetItem(arr, key) ==
    LET p == _hashy_probe(arr, key, FALSE)
    IN IF p.kind = "pos" THEN [res |-> "ok", ret |-> <<arr[p.pos + 1][3]>>]
       ELSE IF p.kind \in {"KeyError", "IndexError"} THEN [res |-> p.kind, ret |-> <<>>]
       ELSE [res |-> "TypeError", ret |-> <<>>]

(* ---------------------------- __contains__ ----------------------------- *)
\* `self[key]` with KeyError turned into False; any other error propagates
Contains(arr, key) ==
    LET r == GetItem(arr, key)
    IN IF r.res = "ok" THEN [res |-> "ok", ret |-> <<TRUE>>]
       ELSE IF r.res = "KeyError" THEN [res |-> "ok", ret |-> <<FALSE>>]
       ELSE [res |-> r.res, ret |-> <<>>]

(* ---------------------------- _rehash ---------------------------------- *)
IndexOf(sizes, n) == CHOOSE i \in 1..Len(sizes) : sizes[i] = n /\ \A j \in 1..(i - 1) : sizes[j] # n
\* TRUE when self.TABLE_SIZES[i + 1] is out of range
RehashFails(sizes, arr) == IndexOf(sizes, table_size(arr)) + 1 > Len(sizes)
\* variant of CopyInto: the copy stops one slot short
CopyIntoShort(arr, new) ==
    [x \in 1..new |-> IF x < Len(arr) /\ ~IsNone(arr[x]) THEN Tuple(arr[x][2], arr[x][3]) ELSE NoneSlot]
\* variant of CopyInto: every entry is placed one index further
CopyIntoShifted(arr, new) ==
    [x \in 1..new |-> IF x >= 2 /\ x - 1 <= Len(arr) /\ ~IsNone(arr[x - 1])
                      THEN Tuple(arr[x - 1][2], arr[x - 1][3]) ELSE NoneSlot]
\* the positional copy of old_table into an array of the given length
CopyInto(arr, new) ==
    [x \in 1..new |-> IF x <= Len(arr) /\ ~IsNone(arr[x]) THEN Tuple(arr[x][2], arr[x][3]) ELSE NoneSlot]
\* variant of _rehash: past the end of the ladder the call returns silently
_rehashSilent(sizes, arr) ==
    IF RehashFails(sizes, arr) THEN [array |-> arr, res |-> "ok"]
    ELSE [array |-> CopyInto(arr, sizes[IndexOf(sizes, table_size(arr)) + 1]), res |-> "ok"]
\* variant of _rehash: past the end of the ladder the index wraps to its start
_rehashWrap(sizes, arr) ==
    IF RehashFails(sizes, arr) THEN [array |-> CopyInto(arr, sizes[1]), res |-> "ok"]
    ELSE [array |-> CopyInto(arr, sizes[IndexOf(sizes, table_size(arr)) + 1]), res |-> "ok"]
\* the array after the call and how the call ends: IndexError leaves self.array as it was
_rehash(sizes, arr) ==
    IF RehashFails(sizes, arr) THEN [array |-> arr, res |-> "IndexError"]
    ELSE [array |-> CopyInto(arr, sizes[IndexOf(sizes, table_size(arr)) + 1]), res |-> "ok"]

(* ---------------------------- __setitem__ ------------------------------ *)
\* variant of CountAfterWrite: an update counts as an insert
CountAfterWriteAlways(arr, cnt, pos) == cnt + 1
\* count after the write at position pos
CountAfterWrite(arr, cnt, pos) == IF IsNone(arr[pos + 1]) THEN cnt + 1 ELSE cnt
\* len(self) raises ValueError when __len__ returns a negative count
LenFails(cnt) == cnt < 0
\* variant of NeedsRehash: growth already at a load of exactly 2/3
NeedsRehashGE(cnt, arr) == 3 * cnt >= table_size(arr) * 2
\* len(self) > self.table_size * 2 / 3
NeedsRehash(cnt, arr) == 3 * cnt > table_size(arr) * 2
\* the whole call as a function of the table: new array, new count, outcome
SetItem(sizes, arr, cnt, key, data) ==
    LET p == _hashy_probe(arr, key, TRUE)
    IN IF p.kind # "pos"
       THEN [array |-> arr, count |-> cnt, res |-> p.kind, wrote |-> FALSE, pos |-> -1]
       ELSE LET cnt1 == CountAfterWrite(arr, cnt, p.pos)
                arr1 == [arr EXCEPT ![p.pos + 1] = Tuple(key, data)]
            IN IF LenFails(cnt1)
               THEN [array |-> arr1, count |-> cnt1, res |-> "ValueError", wrote |-> TRUE, pos |-> p.pos]
               ELSE IF ~NeedsRehash(cnt1, arr1)
               THEN [array |-> arr1, count |-> cnt1, res |-> "ok", wrote |-> TRUE, pos |-> p.pos]
               ELSE LET g == _rehash(sizes, arr1)
                    IN [array |-> g.array, count |-> cnt1, res |-> g.res, wrote |-> TRUE, pos |-> p.pos]

(* ---------------------------- __delitem__ ------------------------------ *)
\* positions (0-based) whose slot is a tuple with this key
Holding(arr, key) == {e \in 0..(Len(arr) - 1) : ~IsNone(arr[e + 1]) /\ arr[e + 1][2] = key}
Stored(arr, key) == Holding(arr, key) # {}
\* variant of DelPosition: the slot is looked for along the probe path
DelPositionProbe(arr, key) ==
    IF _hashy_probe(arr, key, FALSE).kind = "pos" THEN _hashy_probe(arr, key, FALSE).pos ELSE -1
\* position found by the scan from index 0, -1 for `position is None`
DelPosition(arr, key) ==
    IF Stored(arr, key) THEN CHOOSE e \in Holding(arr, key) : \A f \in Holding(arr, key) : e <= f ELSE -1
DelArray(arr, key) ==
    IF DelPosition(arr, key) # -1 THEN [arr EXCEPT ![DelPosition(arr, key) + 1] = Tombstone] ELSE arr
\* variant of DelCount: the decrement is skipped
DelCountKeep(cnt) == cnt
\* `self.count -= 1`, whether or not the scan found the key
DelCount(cnt) == cnt - 1

(* ---------------------------- HashyPerfectionTable --------------------- *)
\* the values of the enum PlayerStats of constants.py, as character codes:
\* "Tackles", "Weight", "Weak Foot Ability", "Games Played", "Goals",
\* "Star Skill", "Assists", "Interceptions", "Height"
PlayerStats ==
    [TACKLES |-> <<84, 97, 99, 107, 108, 101, 115>>,
     WEIGHT |-> <<87, 101, 105, 103, 104, 116>>,
     WEAK_FOOT_ABILITY |-> <<87, 101, 97, 107, 32, 70, 111, 111, 116, 32, 65, 98, 105, 108, 105, 116, 121>>,
     GAMES_PLAYED |-> <<71, 97, 109, 101, 115, 32, 80, 108, 97, 121, 101, 100>>,
     GOALS |-> <<71, 111, 97, 108, 115>>,
     STAR_SKILL |-> <<83, 116, 97, 114, 32, 83, 107, 105, 108, 108>>,
     ASSISTS |-> <<65, 115, 115, 105, 115, 116, 115>>,
     INTERCEPTIONS |-> <<73, 110, 116, 101, 114, 99, 101, 112, 116, 105, 111, 110, 115>>,
     HEIGHT |-> <<72, 101, 105, 103, 104, 116>>]
\* A key is a string object: its text, and which object it is. `is not`
\* compares objects, so the value object of an enum member ("enum") differs
\* from any other string with the same text ("other").
EnumValue(name) == [text |-> PlayerStats[name], obj |-> "enum"]
OtherString(text) == [text |-> text, obj |-> "other"]
DomainKeys == {EnumValue(name) : name \in DOMAIN PlayerStats}
\* keys passed by callers: the nine enum values; "a", which hashes to the
\* index of "Assists"; "z", which hashes to the dead index 5; a string equal
\* to "Weak Foot Ability" that is another object; and the empty string
ForeignKeys == {OtherString(<<97>>), OtherString(<<122>>), OtherString(PlayerStats.WEAK_FOOT_ABILITY)}
PtKeys == DomainKeys \cup ForeignKeys \cup {OtherString(EmptyKey)}
\* number of set and delete calls made on one HashyPerfectionTable
MaxPtCalls == 2

\* 3**n % 13. Python integers are unbounded, so reducing the power modulo
\* 13 before the product gives the value the code computes.
RECURSIVE Pow3Mod13(_)
Pow3Mod13(n) == IF n = 0 THEN 1 ELSE (3 * Pow3Mod13(n - 1)) % 13
\* variant of pt_hash: the term 3*len(key) is left out
pt_hashNoLen(key) == (Pow3Mod13(Len(key.text)) * key.text[1]) % 13
\* (3**len(key) * ord(key[0]) + 3*len(key)) % 13
pt_hash(key) == (Pow3Mod13(Len(key.text)) * key.text[1] + 3 * Len(key.text)) % 13
\* variant of DeadPosition: position 5 is not tested
DeadPositionNo5(position) ==
    position > 12 \/ position \in 9..10 \/ position = 7
\* the first test of the validation: positions no PlayerStats value hashes to
DeadPosition(position) ==
    position > 12 \/ position \in 9..10 \/ position = 7 \/ position = 5
\* variant of Expected: the test for position 4 was copied from position 3
ExpectedCopied ==
    (6 :> "STAR_SKILL") @@ (8 :> "ASSISTS") @@ (0 :> "TACKLES") @@ (1 :> "WEIGHT")
    @@ (2 :> "WEAK_FOOT_ABILITY") @@ (3 :> "GAMES_PLAYED") @@ (4 :> "GAMES_PLAYED")
    @@ (11 :> "INTERCEPTIONS") @@ (12 :> "HEIGHT")
\* the enum member the validation compares the key with, per position
Expected ==
    (6 :> "STAR_SKILL") @@ (8 :> "ASSISTS") @@ (0 :> "TACKLES") @@ (1 :> "WEIGHT")
    @@ (2 :> "WEAK_FOOT_ABILITY") @@ (3 :> "GAMES_PLAYED") @@ (4 :> "GOALS")
    @@ (11 :> "INTERCEPTIONS") @@ (12 :> "HEIGHT")
\* variant of Rejected: the identity test of position 8 is missing
RejectedNo8(key, position) ==
    \/ DeadPosition(position)
    \/ position \in (DOMAIN Expected \ {8}) /\ key # EnumValue(Expected[position])
\* TRUE when the validation raises KeyError("Not a key contained in Player Stats")
Rejected(key, position) ==
    \/ DeadPosition(position)
    \/ position \in DOMAIN Expected /\ key # EnumValue(Expected[position])
\* how a call ends: res is "ok" or the exception, msg tells the two KeyErrors apart
PtEnd(arr, cnt, res, msg, ret) == [array |-> arr, count |-> cnt, res |-> res, msg |-> msg, ret |-> ret]
NotAKey == "Not a key contained in Player Stats"
NotFoundMsg == "not found"
PtGetItem(arr, cnt, key) ==
    IF FirstCharFails(key.text) THEN PtEnd(arr, cnt, "IndexError", "", <<>>)
    ELSE LET position == pt_hash(key)
         IN IF Rejected(key, position) THEN PtEnd(arr, cnt, "KeyError", NotAKey, <<>>)
            ELSE IF IsNone(arr[position + 1]) THEN PtEnd(arr, cnt, "KeyError", NotFoundMsg, <<>>)
            ELSE PtEnd(arr, cnt, "ok", "", <<arr[position + 1][3]>>)
\* a set that counts every write, also the overwrite of a stored key
PtSetItemCounting(arr, cnt, key, data) ==
    IF FirstCharFails(key.text) THEN PtEnd(arr, cnt, "IndexError", "", <<>>)
    ELSE LET position == pt_hash(key)
         IN IF Rejected(key, position) THEN PtEnd(arr, cnt, "KeyError", NotAKey, <<>>)
            ELSE PtEnd([arr EXCEPT ![position + 1] = Tuple(key, data)], cnt + 1, "ok", "", <<>>)
PtSetItem(arr, cnt, key, data) ==
    IF FirstCharFails(key.text) THEN PtEnd(arr, cnt, "IndexError", "", <<>>)
    ELSE LET position == pt_hash(key)
         IN IF Rejected(key, position) THEN PtEnd(arr, cnt, "KeyError", NotAKey, <<>>)
            ELSE PtEnd([arr EXCEPT ![position + 1] = Tuple(key, data)],
                       IF IsNone(arr[position + 1]) THEN cnt + 1 ELSE cnt, "ok", "", <<>>)
PtDelItem(arr, cnt, key) ==
    IF FirstCharFails(key.text) THEN PtEnd(arr, cnt, "IndexError", "", <<>>)
    ELSE LET position == pt_hash(key)
         IN IF Rejected(key, position) THEN PtEnd(arr, cnt, "KeyError", NotAKey, <<>>)
            ELSE PtEnd([arr EXCEPT ![position + 1] = NoneSlot], cnt - 1, "ok", "", <<>>)
\* `self[key]` with KeyError, either message, turned into False
PtContains(arr, cnt, key) ==
    LET r == PtGetItem(arr, cnt, key)
    IN IF r.res = "ok" THEN PtEnd(arr, cnt, "ok", "", <<TRUE>>)
       ELSE IF r.res = "KeyError" THEN PtEnd(arr, cnt, "ok", "", <<FALSE>>)
       ELSE r
\* keys() and values(): the entries written to res, in array order. The loop
\* runs over range(len(self)), the indices 0 .. count - 1; res has 13 slots
\* and those after the entries stay None. len(self) raises ValueError when
\* count is negative.
RECURSIVE PtCollect(_, _, _, _)
PtCollect(arr, x, stop, field) ==
    IF x > stop \/ x > Len(arr) THEN <<>>
    ELSE IF ~IsNone(arr[x]) THEN <<arr[x][field]>> \o PtCollect(arr, x + 1, stop, field)
    ELSE PtCollect(arr, x + 1, stop, field)
pt_keys(arr, cnt) ==
    IF LenFails(cnt) THEN PtEnd(arr, cnt, "ValueError", "", <<>>)
    ELSE PtEnd(arr, cnt, "ok", "", PtCollect(arr, 1, cnt, 2))
pt_values(arr, cnt) ==
    IF LenFails(cnt) THEN PtEnd(arr, cnt, "ValueError", "", <<>>)
    ELSE PtEnd(arr, cnt, "ok", "", PtCollect(arr, 1, cnt, 3))
PtCall(op, key, val, r) == [op |-> op, key |-> key, val |-> val, res |-> r.res, msg |-> r.msg, ret |-> r.ret]
\* is_empty() and is_full(): count against 0 and against the 13 slots
pt_is_empty(arr, cnt) == cnt = 0
pt_is_full(arr, cnt) == cnt = Len(arr)
\* Player.reset_stats: every member of PlayerStats, in the enum's order, set
\* to 0 in the player's table; a failing set ends the loop
PlayerStatsOrder ==
    <<"GAMES_PLAYED", "GOALS", "ASSISTS", "TACKLES", "INTERCEPTIONS",
      "STAR_SKILL", "WEAK_FOOT_ABILITY", "WEIGHT", "HEIGHT">>
RECURSIVE PlayerResetFrom(_, _)
PlayerResetFrom(t, x) ==
    IF x > Len(PlayerStatsOrder) \/ t.res # "ok" THEN t
    ELSE CHOOSE new \in {PlayerResetFrom(r, x + 1) :
                            r \in {PtSetItem(t.array, t.count, EnumValue(PlayerStatsOrder[x]), 0)}} : TRUE
player_reset_stats(arr, cnt) == PlayerResetFrom(PtEnd(arr, cnt, "ok", "", <<>>), 1)

(* ---------------------------- Season ----------------------------------- *)
\* number of teams of a season whose schedule is generated
MaxTeams == 4
\* A team is its team number (Team.get_number) and its name; the teams of a
\* new season have played nothing, so their statistics are all equal. A
\* game is the pair <<home, away>>, a week the sequence of its games.
TeamNames == {"A", "B"}
Team(number, name) == [number |-> number, name |-> name]
Game(home_team, away_team) == <<home_team, away_team>>
\* Team.__eq__: equal POINTS, GOALS_DIFFERENCE, GOALS_FOR and name
TeamEq(a, b) == a.name = b.name
\* the == of the dataclass Game: (home_team, away_team) compared as tuples
GameEq(g, h) == TeamEq(g[1], h[1]) /\ TeamEq(g[2], h[2])
\* the arrays of teams a season is built from: distinct team numbers in any
\* order, names free
IsInjective(s) == \A i, j \in DOMAIN s : i # j => s[i] # s[j]
TeamArrays ==
    UNION {{[i \in 1..n |-> Team(nums[i], names[i])] :
                nums \in {s \in [1..n -> 1..MaxTeams] : IsInjective(s)}, names \in [1..n -> TeamNames]} :
           n \in 0..MaxTeams}
\* the double loop that fills games: (i, j) with i < j, i ascending, then j
RECURSIVE AllGames(_, _, _)
AllGames(teams, i, j) ==
    IF i > Len(teams) THEN <<>>
    ELSE IF j > Len(teams) THEN AllGames(teams, i + 1, i + 2)
    ELSE <<Game(teams[i], teams[j])>> \o AllGames(teams, i, j + 1)
\* variant of Free: only the home team is looked up in used_teams
FreeHomeOnly(game, used_teams) == game[1].number \notin used_teams
\* neither team of the game is in used_teams
Free(game, used_teams) == game[1].number \notin used_teams /\ game[2].number \notin used_teams
\* one pass of `for game in games[:]`: the games put into current_week
RECURSIVE CurrentWeek(_, _, _)
CurrentWeek(copy, k, used_teams) ==
    IF k > Len(copy) THEN <<>>
    ELSE IF Free(copy[k], used_teams)
         THEN <<copy[k]>> \o CurrentWeek(copy, k + 1, used_teams \cup {copy[k][1].number, copy[k][2].number})
         ELSE CurrentWeek(copy, k + 1, used_teams)
\* games.remove(game): the first element that == game is removed
Remove(games, game) ==
    LET first == CHOOSE i \in DOMAIN games :
                     GameEq(games[i], game) /\ \A j \in 1..(i - 1) : ~GameEq(games[j], game)
    IN [x \in 1..(Len(games) - 1) |-> IF x < first THEN games[x] ELSE games[x + 1]]
\* games after the removals of one pass, made in the order of current_week
RECURSIVE Remaining(_, _, _)
Remaining(games, week, k) ==
    IF k > Len(week) THEN games ELSE Remaining(Remove(games, week[k]), week, k + 1)
\* Game(game.away_team, game.home_team)
Flipped(game) == Game(game[2], game[1])
FlippedWeek(week) == [x \in DOMAIN week |-> Flipped(week[x])]
\* the while loop: weekly_games
RECURSIVE WeeklyGames(_)
WeeklyGames(games) ==
    IF games = <<>> THEN <<>>
    ELSE LET week == CurrentWeek(games, 1, {})
         IN <<week>> \o WeeklyGames(Remaining(games, week, 1))
\* weekly_games + flipped_weeks
_generate_schedule(teams) ==
    LET weekly_games == WeeklyGames(AllGames(teams, 1, 2))
    IN weekly_games \o [x \in DOMAIN weekly_games |-> FlippedWeek(weekly_games[x])]
\* ArrayR.from_list of an empty list: ArrayR is not part of the sources; an
\* array of length 0 is either built or refused with ValueError
FromListOutcomes(lst) == IF lst = <<>> THEN {"ok", "ValueError"} ELSE {"ok"}
\* number of delay_week_of_games calls made on one season
MaxDelays == 2
\* the arrays of teams of the seasons on which calls are made; a season of
\* one team exists only if its empty schedule was built
SeasonTeams ==
    {<<Team(1, "A")>>,
     <<Team(1, "A"), Team(2, "B")>>,
     <<Team(2, "A"), Team(1, "B"), Team(3, "C")>>,
     <<Team(1, "A"), Team(2, "B"), Team(3, "C"), Team(4, "D")>>}
\* LinkedList.index(item), 0-based: the first position whose item == item.
\* The weeks are arrays, compared by identity; distinct weeks of these
\* seasons differ in their games.
Index(schedule, w) == (CHOOSE i \in DOMAIN schedule : schedule[i] = w /\ \A j \in 1..(i - 1) : schedule[j] # w) - 1
\* the loop of delay_week_of_games with a new_week, from the x-th week on
RECURSIVE UpdatedSchedule(_, _, _, _)
UpdatedSchedule(schedule, x, orig_week, new_week) ==
    IF x > Len(schedule) THEN <<>>
    ELSE LET w == schedule[x]
             rest == UpdatedSchedule(schedule, x + 1, orig_week, new_week)
         IN IF Index(schedule, w) # orig_week - 1 /\ Index(schedule, w) # new_week - 1
            THEN <<w>> \o rest
            ELSE IF Index(schedule, w) = new_week - 1
            THEN <<w, schedule[orig_week]>> \o rest
            ELSE rest
\* the branch for new_week None: delete_at_index(orig_week - 1), then append
MovedToEnd(schedule, orig_week) ==
    [x \in 1..(Len(schedule) - 1) |-> IF x < orig_week THEN schedule[x] ELSE schedule[x + 1]]
        \o <<schedule[orig_week]>>
\* no_of_games(): the sum of the lengths of the weeks
RECURSIVE no_of_games(_)
no_of_games(schedule) ==
    IF schedule = <<>> THEN 0 ELSE Len(Head(schedule)) + no_of_games(Tail(schedule))
\* get_next_game: the while loop entered with counter G and index i. Indexing
\* the schedule past its end raises ValueError (LinkedList.__getitem__).
RECURSIVE NextGameLoop(_, _, _, _)
NextGameLoop(schedule, w, G, i) ==
    IF ~(G <= no_of_games(schedule)) THEN [res |-> "ok", ret |-> <<>>]
    ELSE IF i >= Len(schedule) THEN [res |-> "ValueError", ret |-> <<>>]
    ELSE IF w \in (G + 1)..(G + Len(schedule[i + 1])) THEN [res |-> "ok", ret |-> <<schedule[i + 1]>>]
    ELSE NextGameLoop(schedule, w, G + Len(schedule[i + 1]), i + 1)
\* a get_next_game that returns the first week whatever w is
get_next_gameFirst(schedule, w) == NextGameLoop(schedule, 1, 0, 0)
\* what the call returns: <<week>>, or <<>> for None
get_next_game(schedule, w) == NextGameLoop(schedule, w, 0, 0)
SnCall(op, args, res, ret) == [op |-> op, args |-> args, res |-> res, ret |-> ret]
\* where a simulate_season call stands: "idle" (no call running), "while"
\* (at the loop condition, line 212) or "for" (before the g-th game of the
\* week that get_next_game returned, line 217)
SnAt(at, week, g) == [at |-> at, week |-> week, g |-> g]

\* the calls of simulate_season made on one season
MaxRuns == 2
\* the delay_week_of_games calls made before the season is simulated
MaxPreDelays == 1
(* ------------------------------- Team ---------------------------------- *)
\* number of result updates made on one team
MaxUpdates == 6
\* the values of the enumeration TeamStats, as sequences of character codes,
\* in the order of the enumeration:
\*   GAMES_PLAYED = "Games Played"
\*   POINTS = "Points"
\*   WINS = "Wins"
\*   DRAWS = "Draws"
\*   LOSSES = "Losses"
\*   GOALS_FOR = "Goals For"
\*   GOALS_AGAINST = "Goals Against"
\*   GOALS_DIFFERENCE = "Goals Difference"
\*   LAST_FIVE_RESULTS = "Last Five Results"
TeamStats ==
    [GAMES_PLAYED |-> <<71, 97, 109, 101, 115, 32, 80, 108, 97, 121, 101, 100>>,
     POINTS |-> <<80, 111, 105, 110, 116, 115>>,
     WINS |-> <<87, 105, 110, 115>>,
     DRAWS |-> <<68, 114, 97, 119, 115>>,
     LOSSES |-> <<76, 111, 115, 115, 101, 115>>,
     GOALS_FOR |-> <<71, 111, 97, 108, 115, 32, 70, 111, 114>>,
     GOALS_AGAINST |-> <<71, 111, 97, 108, 115, 32, 65, 103, 97, 105, 110, 115, 116>>,
     GOALS_DIFFERENCE |-> <<71, 111, 97, 108, 115, 32, 68, 105, 102, 102, 101, 114, 101, 110, 99, 101>>,
     LAST_FIVE_RESULTS |-> <<76, 97, 115, 116, 32, 70, 105, 118, 101, 32, 82, 101, 115, 117, 108, 116, 115>>]
TeamStatsOrder ==
    <<TeamStats.GAMES_PLAYED, TeamStats.POINTS, TeamStats.WINS, TeamStats.DRAWS, TeamStats.LOSSES,
      TeamStats.GOALS_FOR, TeamStats.GOALS_AGAINST, TeamStats.GOALS_DIFFERENCE, TeamStats.LAST_FIVE_RESULTS>>
\* the result statistics with the GameResult each one stands for
ResultKeys == {TeamStats.WINS, TeamStats.LOSSES, TeamStats.DRAWS}
GameResult(statistic) ==
    IF statistic = TeamStats.WINS THEN 3 ELSE IF statistic = TeamStats.DRAWS THEN 1 ELSE 0
GoalKeys == {TeamStats.GOALS_FOR, TeamStats.GOALS_AGAINST}
\* the table value that refers to the team's LinkedQueue of results
QueueRef == -1
\* the first sizes of the default TABLE_SIZES of HashyStepTable()
DefaultSizes == <<5, 13, 29, 53>>
\* self.statistics: a HashyStepTable; res is the outcome of the calls so far
NewTable == [array |-> ArrayR(DefaultSizes[1]), count |-> 0, res |-> "ok"]
\* self.statistics[key] = data, after the calls that led to t
\* (the table and the outcome of SetItem are each bound once to their value)
TmPut(t, key, data) ==
    CHOOSE new \in {IF v.res # "ok" THEN v
                    ELSE CHOOSE w \in {[array |-> r.array, count |-> r.count, res |-> r.res] :
                                          r \in {SetItem(DefaultSizes, v.array, v.count, key, data)}} : TRUE :
                    v \in {t}} : TRUE
\* self.statistics[key], 0 standing for a value that could not be read
TmVal(t, key) == LET g == GetItem(t.array, key) IN IF g.res = "ok" THEN g.ret[1] ELSE 0
\* the outcome of reading self.statistics[key] after the calls that led to t
TmRead(t, key) ==
    CHOOSE new \in {IF v.res # "ok" THEN v ELSE [v EXCEPT !.res = GetItem(v.array, key).res] : v \in {t}} : TRUE
\* self.statistics[key] = self.statistics[key] + d
TmAdd(t, key, d) == CHOOSE new \in {TmPut(TmRead(v, key), key, TmVal(v, key) + d) : v \in {t}} : TRUE
\* reset_stats: every statistic from the x-th on is set, in enumeration order
RECURSIVE ResetFrom(_, _)
ResetFrom(t, x) ==
    IF x > Len(TeamStatsOrder) THEN t
    ELSE ResetFrom(TmPut(t, TeamStatsOrder[x],
                         IF TeamStatsOrder[x] = TeamStats.LAST_FIVE_RESULTS THEN QueueRef ELSE 0), x + 1)
reset_stats(t) == ResetFrom(t, 1)
\* get_players(): None (<<>>) when the team has no player in any position,
\* else <<the list of all players>>
get_players(players) == IF players = <<>> THEN <<>> ELSE <<players>>
\* get_last_five_results: None (ret <<>>) or the queue (ret <<queue>>)
get_last_five_results(t, queue) ==
    LET g == TmRead(t, TeamStats.GAMES_PLAYED)
        q == TmRead(g, TeamStats.LAST_FIVE_RESULTS)
    IN IF g.res # "ok" THEN [res |-> g.res, ret |-> <<>>]
       ELSE IF TmVal(t, TeamStats.GAMES_PLAYED) = 0 THEN [res |-> "ok", ret |-> <<>>]
       ELSE IF q.res # "ok" THEN [res |-> q.res, ret |-> <<>>]
       ELSE [res |-> "ok", ret |-> <<queue>>]
\* a result part that leaves the players' GAMES_PLAYED as they are
TmResultTeamOnly(t, queue, players, statistic) ==
    LET t1 == TmAdd(t, TeamStats.GAMES_PLAYED, 1)
        t2 == TmAdd(t1, TeamStats.POINTS, GameResult(statistic))
        t3 == TmRead(TmRead(t2, TeamStats.GAMES_PLAYED), TeamStats.LAST_FIVE_RESULTS)
        played == players
    IN IF t1.res # "ok" THEN [t |-> t1, queue |-> queue, players |-> players, res |-> t1.res]
       ELSE IF get_players(players) = <<>>
       THEN [t |-> t1, queue |-> queue, players |-> players, res |-> "TypeError"]
       ELSE IF t3.res # "ok" THEN [t |-> t3, queue |-> queue, players |-> played, res |-> t3.res]
       ELSE IF TmVal(t2, TeamStats.GAMES_PLAYED) <= 5
       THEN [t |-> t2, queue |-> Append(queue, GameResult(statistic)), players |-> played, res |-> "ok"]
       ELSE IF queue = <<>>
       THEN [t |-> t2, queue |-> queue, players |-> played, res |-> "Exception"]
       ELSE [t |-> t2, queue |-> Append(Tail(queue), GameResult(statistic)), players |-> played, res |-> "ok"]
\* the result part of __setitem__ for WINS, LOSSES or DRAWS, entered with the
\* table t after the statistic itself was stored
TmResult(t, queue, players, statistic) ==
    LET t1 == TmAdd(t, TeamStats.GAMES_PLAYED, 1)
        t2 == TmAdd(t1, TeamStats.POINTS, GameResult(statistic))
        t3 == TmRead(TmRead(t2, TeamStats.GAMES_PLAYED), TeamStats.LAST_FIVE_RESULTS)
        played == [p \in DOMAIN players |-> players[p] + 1]
    IN IF t1.res # "ok" THEN [t |-> t1, queue |-> queue, players |-> players, res |-> t1.res]
       ELSE IF get_players(players) = <<>>
       THEN [t |-> t1, queue |-> queue, players |-> players, res |-> "TypeError"]
       ELSE IF t3.res # "ok" THEN [t |-> t3, queue |-> queue, players |-> played, res |-> t3.res]
       ELSE IF TmVal(t2, TeamStats.GAMES_PLAYED) <= 5
       THEN [t |-> t2, queue |-> Append(queue, GameResult(statistic)), players |-> played, res |-> "ok"]
       ELSE IF queue = <<>>
       THEN [t |-> t2, queue |-> queue, players |-> played, res |-> "Exception"]
       ELSE [t |-> t2, queue |-> Append(Tail(queue), GameResult(statistic)), players |-> played, res |-> "ok"]
\* Team.__setitem__(statistic, value)
TeamSetItem(t, queue, players, statistic, value) ==
    LET t1 == TmPut(t, statistic, value)
        t2 == IF statistic \in GoalKeys
              THEN TmPut(TmRead(TmRead(t1, TeamStats.GOALS_FOR), TeamStats.GOALS_AGAINST),
                         TeamStats.GOALS_DIFFERENCE,
                         TmVal(t1, TeamStats.GOALS_FOR) - TmVal(t1, TeamStats.GOALS_AGAINST))
              ELSE t1
    IN IF t2.res # "ok" \/ statistic \notin ResultKeys
       THEN [t |-> t2, queue |-> queue, players |-> players, res |-> t2.res]
       ELSE TmResult(t2, queue, players, statistic)

\* the games of a season played by one team
MaxGames == 3
\* the goals a side scores in a game
Scores == {0, 1}
\* the GAMES_PLAYED statistics of the players a team is built from: no
\* player, new players, and a player who has played a game before
Rosters == {<<>>, <<0>>, <<0, 0>>, <<1>>}
\* team[statistic] = team[statistic] + d, made after the updates that led to r
TmThen(r, statistic, d) ==
    CHOOSE new \in {IF v.res # "ok" THEN v
                     ELSE TeamSetItem(v.t, v.queue, v.players, statistic, TmVal(v.t, statistic) + d) :
                     v \in {r}} : TRUE
\* what simulate_season does to one team for one game (lines 222-237): the
\* result, then the goals in the order of lines 234-237, which give the home
\* goals to both teams first; an update that raises ends the call
simulate_game(t, queue, players, role, home_goals, away_goals) ==
    LET own == IF role = "home" THEN home_goals ELSE away_goals
        other == IF role = "home" THEN away_goals ELSE home_goals
        result == IF own > other THEN TeamStats.WINS
                  ELSE IF own < other THEN TeamStats.LOSSES ELSE TeamStats.DRAWS
        r1 == TmThen([t |-> t, queue |-> queue, players |-> players, res |-> "ok"], result, 1)
        r2 == TmThen(r1, IF role = "home" THEN TeamStats.GOALS_FOR ELSE TeamStats.GOALS_AGAINST, home_goals)
    IN TmThen(r2, IF role = "home" THEN TeamStats.GOALS_AGAINST ELSE TeamStats.GOALS_FOR, away_goals)

(* ---------------------------- history ---------------------------------- *)
\* latest[k]: the value of the most recent set(k, .) that wrote its entry,
\* NeverSet before the first one, Deleted when k was deleted since
NeverSet == <<"never">>
Deleted == <<"deleted">>
WasSet(v) == <<"set", v>>
\* scen: how many inserts of Scenario have been made, and nothing else, on a
\* table with ladder [5, 13]; -1 once any other set or delete was called
ScenNext(s, key) == IF s >= 0 /\ s < Len(Scenario) /\ key = Scenario[s + 1] THEN s + 1 ELSE -1
\* stray: some delete so far targeted a key that was not stored
\* last: the most recent call, its arguments, how it ended (res), what it
\* returned (ret), whether a set wrote its entry, and the slot it touched
Call(op, key, val, res, ret, wrote, pos) ==
    [op |-> op, key |-> key, val |-> val, res |-> res, ret |-> ret, wrote |-> wrote, pos |-> pos]

(* ---------------------------- the state machine ------------------------ *)
\* HashyPerfectionTable.__init__
PtInit ==
    /\ pt_array = ArrayR(13)
    /\ pt_count = 0
    /\ pt_last = PtCall("init", OtherString(EmptyKey), 0, PtEnd(<<>>, 0, "ok", "", <<>>))
    /\ pt_calls = 0

\* the variables of a Season and of a Team before any is constructed
SnIdle ==
    /\ sn_teams = <<>>
    /\ sn_schedule = <<>>
    /\ sn_w = 0
    /\ sn_last = SnCall("none", <<>>, "ok", <<>>)
    /\ sn_delays = 0
    /\ sn_pc = SnAt("idle", <<>>, 0)
    /\ sn_played = <<>>
    /\ sn_runs = 0
TmIdle ==
    /\ tm_statistics = <<>>
    /\ tm_count = 0
    /\ tm_results = <<>>
    /\ tm_players = <<>>
    /\ tm_last = SnCall("none", <<>>, "ok", <<>>)
    /\ tm_made = <<>>

\* HashyStepTable.__init__
StepStart ==
    /\ size_index = 0
    /\ array = ArrayR(TABLE_SIZES[1])
    /\ count = 0
    /\ last = Call("init", <<>>, 0, "ok", <<>>, FALSE, -1)
    /\ stray = FALSE
    /\ latest = [k \in Keys |-> NeverSet]
    /\ scen = IF TABLE_SIZES = <<5, 13>> THEN 0 ELSE -1
    /\ calls = 0
StepInit ==
    /\ TABLE_SIZES \in Ladders
    /\ StepStart

Init ==
    /\ SnIdle
    /\ TmIdle
    /\ PtInit
    /\ StepInit

Set(key, data) ==
    LET r == SetItem(TABLE_SIZES, array, count, key, data)
    IN /\ calls < MaxCalls
       /\ calls' = calls + 1
       /\ array' = r.array
       /\ count' = r.count
       /\ last' = Call("set", key, data, r.res, <<>>, r.wrote, r.pos)
       /\ latest' = IF r.wrote THEN [latest EXCEPT ![key] = WasSet(data)] ELSE latest
       /\ scen' = IF r.res = "ok" THEN ScenNext(scen, key) ELSE -1
       /\ UNCHANGED <<TABLE_SIZES, size_index, stray>>
       /\ UNCHANGED <<pt_vars, sn_vars, tm_vars>>

Get(key) ==
    LET r == GetItem(array, key)
    IN /\ last' = Call("get", key, 0, r.res, r.ret, FALSE, -1)
       /\ UNCHANGED <<TABLE_SIZES, size_index, array, count, latest, scen, stray, calls>>
       /\ UNCHANGED <<pt_vars, sn_vars, tm_vars>>

Delete(key) ==
    /\ calls < MaxCalls
    /\ calls' = calls + 1
    /\ DelCount(count) >= -MaxNeg
    /\ array' = DelArray(array, key)
    /\ count' = DelCount(count)
    /\ last' = Call("delete", key, 0, "ok", <<>>, FALSE, DelPosition(array, key))
    /\ stray' = (stray \/ ~Stored(array, key))
    /\ latest' = IF key \in DOMAIN latest THEN [latest EXCEPT ![key] = Deleted] ELSE latest
    /\ scen' = -1
    /\ UNCHANGED <<TABLE_SIZES, size_index>>
    /\ UNCHANGED <<pt_vars, sn_vars, tm_vars>>

KeysCall ==
    /\ last' = Call("keys", <<>>, 0, "ok", keys(array), FALSE, -1)
    /\ UNCHANGED <<TABLE_SIZES, size_index, array, count, latest, scen, stray, calls>>
    /\ UNCHANGED <<pt_vars, sn_vars, tm_vars>>

ValuesCall ==
    /\ last' = Call("values", <<>>, 0, "ok", values(array), FALSE, -1)
    /\ UNCHANGED <<TABLE_SIZES, size_index, array, count, latest, scen, stray, calls>>
    /\ UNCHANGED <<pt_vars, sn_vars, tm_vars>>

Next ==
    \/ \E key \in Keys, data \in Values : Set(key, data)
    \/ \E key \in Keys : Get(key)
    \/ \E key \in Keys : Delete(key)
    \/ KeysCall
    \/ ValuesCall

Spec == Init /\ [][Next]_vars

\* a table built over a ladder on which a growth can follow a delete
\* within the calls made
InitGrowth ==
    /\ SnIdle
    /\ TmIdle
    /\ PtInit
    /\ TABLE_SIZES = GrowthLadder
    /\ StepStart
SpecGrowth == InitGrowth /\ [][Next]_vars

\* the keyed calls, the membership test among them, with the empty string
\* among their keys
ContainsCall(key) ==
    LET r == Contains(array, key)
    IN /\ last' = Call("contains", key, 0, r.res, r.ret, FALSE, -1)
       /\ UNCHANGED <<TABLE_SIZES, size_index, array, count, latest, scen, stray, calls>>
       /\ UNCHANGED <<pt_vars, sn_vars, tm_vars>>

NextAnyKey ==
    \/ \E key \in AnyKeys, data \in Values : Set(key, data)
    \/ \E key \in AnyKeys : Get(key)
    \/ \E key \in AnyKeys : Delete(key)
    \/ \E key \in AnyKeys : ContainsCall(key)

SpecAnyKey == Init /\ [][NextAnyKey]_vars

\* the calls on a HashyPerfectionTable
PtSet(key, data) ==
    LET r == PtSetItem(pt_array, pt_count, key, data)
    IN /\ pt_calls < MaxPtCalls
       /\ pt_calls' = pt_calls + 1
       /\ pt_array' = r.array
       /\ pt_count' = r.count
       /\ pt_last' = PtCall("set", key, data, r)
       /\ UNCHANGED <<step_vars, sn_vars, tm_vars>>

PtGet(key) ==
    /\ pt_last' = PtCall("get", key, 0, PtGetItem(pt_array, pt_count, key))
    /\ UNCHANGED <<pt_array, pt_count, pt_calls>>
    /\ UNCHANGED <<step_vars, sn_vars, tm_vars>>

PtDelete(key) ==
    LET r == PtDelItem(pt_array, pt_count, key)
    IN /\ pt_calls < MaxPtCalls
       /\ pt_calls' = pt_calls + 1
       /\ pt_array' = r.array
       /\ pt_count' = r.count
       /\ pt_last' = PtCall("delete", key, 0, r)
       /\ UNCHANGED <<step_vars, sn_vars, tm_vars>>

PtContainsCall(key) ==
    /\ pt_last' = PtCall("contains", key, 0, PtContains(pt_array, pt_count, key))
    /\ UNCHANGED <<pt_array, pt_count, pt_calls>>
    /\ UNCHANGED <<step_vars, sn_vars, tm_vars>>

PtKeysCall ==
    /\ pt_last' = PtCall("keys", OtherString(EmptyKey), 0, pt_keys(pt_array, pt_count))
    /\ UNCHANGED <<pt_array, pt_count, pt_calls>>
    /\ UNCHANGED <<step_vars, sn_vars, tm_vars>>

PtValuesCall ==
    /\ pt_last' = PtCall("values", OtherString(EmptyKey), 0, pt_values(pt_array, pt_count))
    /\ UNCHANGED <<pt_array, pt_count, pt_calls>>
    /\ UNCHANGED <<step_vars, sn_vars, tm_vars>>

PtNext ==
    \/ \E key \in PtKeys, data \in Values : PtSet(key, data)
    \/ \E key \in PtKeys : PtGet(key)
    \/ \E key \in PtKeys : PtDelete(key)
    \/ \E key \in PtKeys : PtContainsCall(key)
    \/ PtKeysCall
    \/ PtValuesCall

\* one HashyPerfectionTable; the HashyStepTable stays as constructed
InitPerfection == Init /\ TABLE_SIZES = <<5, 13>>
SpecPerfection == InitPerfection /\ [][PtNext]_vars

\* the statistics table of a Player: Player.__init__ constructs the table and
\* calls reset_stats, after which callers use the table as above
PlayerInit ==
    LET r == player_reset_stats(ArrayR(13), 0)
    IN /\ pt_array = r.array
       /\ pt_count = r.count
       /\ pt_last = PtCall("reset_stats", OtherString(EmptyKey), 0, r)
       /\ pt_calls = 0
InitPlayer == SnIdle /\ TmIdle /\ StepInit /\ TABLE_SIZES = <<5, 13>> /\ PlayerInit
SpecPlayer == InitPlayer /\ [][PtNext]_vars

\* _generate_schedule applied to an array of teams
InitSchedule ==
    /\ StepInit
    /\ TABLE_SIZES = <<5, 13>>
    /\ PtInit
    /\ TmIdle
    /\ sn_teams \in TeamArrays
    /\ sn_schedule = <<>>
    /\ sn_w = 0
    /\ sn_last = SnCall("none", <<>>, "ok", <<>>)
    /\ sn_delays = 0
    /\ sn_pc = SnAt("idle", <<>>, 0)
    /\ sn_played = <<>>
    /\ sn_runs = 0
GenerateSchedule ==
    /\ sn_last.op = "none"
    /\ \E res \in FromListOutcomes(_generate_schedule(sn_teams)) :
          /\ sn_last' = SnCall("_generate_schedule", <<>>, res, <<>>)
          /\ sn_schedule' = IF res = "ok" THEN _generate_schedule(sn_teams) ELSE sn_schedule
    /\ UNCHANGED <<sn_teams, sn_w, sn_delays, sn_pc, sn_played, sn_runs>>
    /\ UNCHANGED <<step_vars, pt_vars, tm_vars>>
SpecSchedule == InitSchedule /\ [][GenerateSchedule]_vars

\* a Season after Season.__init__, and the calls on it
InitSeason ==
    /\ StepInit
    /\ TABLE_SIZES = <<5, 13>>
    /\ PtInit
    /\ TmIdle
    /\ sn_teams \in SeasonTeams
    /\ sn_schedule = _generate_schedule(sn_teams)
    /\ sn_w = 1
    /\ sn_last = SnCall("init", <<>>, "ok", <<>>)
    /\ sn_delays = 0
    /\ sn_pc = SnAt("idle", <<>>, 0)
    /\ sn_played = <<>>
    /\ sn_runs = 0

\* delay_week_of_games(orig_week, new_week) with a new_week
DelayWeek(orig_week, new_week) ==
    /\ sn_delays < MaxDelays
    /\ sn_delays' = sn_delays + 1
    /\ sn_schedule' = UpdatedSchedule(sn_schedule, 1, orig_week, new_week)
    /\ sn_last' = SnCall("delay_week_of_games", <<orig_week, new_week>>, "ok", <<>>)
    /\ UNCHANGED <<sn_teams, sn_w, sn_pc, sn_played, sn_runs>>
    /\ UNCHANGED <<step_vars, pt_vars, tm_vars>>

\* delay_week_of_games(orig_week): the week goes to the end of the season
DelayWeekToEnd(orig_week) ==
    /\ sn_delays < MaxDelays
    /\ sn_delays' = sn_delays + 1
    /\ sn_schedule' = MovedToEnd(sn_schedule, orig_week)
    /\ sn_last' = SnCall("delay_week_of_games", <<orig_week>>, "ok", <<>>)
    /\ UNCHANGED <<sn_teams, sn_w, sn_pc, sn_played, sn_runs>>
    /\ UNCHANGED <<step_vars, pt_vars, tm_vars>>

GetNextGame ==
    LET r == get_next_game(sn_schedule, sn_w)
    IN /\ sn_last' = SnCall("get_next_game", <<>>, r.res, r.ret)
       /\ UNCHANGED <<sn_teams, sn_schedule, sn_w, sn_delays, sn_pc, sn_played, sn_runs>>
       /\ UNCHANGED <<step_vars, pt_vars, tm_vars>>

\* one round of the loop of simulate_season: the games of the week that
\* get_next_game returns are played and w is advanced once for each (the
\* results go to the teams, which are not part of the season's state here)
SimulateWeek ==
    LET r == get_next_game(sn_schedule, sn_w)
    IN /\ sn_w <= no_of_games(sn_schedule)
       /\ r.res = "ok"
       /\ r.ret # <<>>
       /\ sn_w' = sn_w + Len(r.ret[1])
       /\ sn_last' = SnCall("simulate_season", <<>>, "ok", <<>>)
       /\ UNCHANGED <<sn_teams, sn_schedule, sn_delays, sn_pc, sn_played, sn_runs>>
       /\ UNCHANGED <<step_vars, pt_vars, tm_vars>>

SeasonNext ==
    \/ \E orig_week, new_week \in 1..Len(sn_schedule) : DelayWeek(orig_week, new_week)
    \/ \E orig_week \in 1..Len(sn_schedule) : DelayWeekToEnd(orig_week)
    \/ GetNextGame
    \/ SimulateWeek

SpecSeason == InitSeason /\ [][SeasonNext]_vars

\* simulate_season() step by step. The call begins:
SimulateSeason ==
    /\ sn_pc.at = "idle"
    /\ sn_runs < MaxRuns
    /\ sn_runs' = sn_runs + 1
    /\ sn_pc' = SnAt("while", <<>>, 0)
    /\ sn_last' = SnCall("simulate_season", <<>>, "running", <<>>)
    /\ UNCHANGED <<sn_teams, sn_schedule, sn_w, sn_delays, sn_played>>
    /\ UNCHANGED <<step_vars, pt_vars, tm_vars>>
\* the loop condition (line 212) and the fetch of the week (lines 213-216):
\* the call returns when w has passed no_of_games(), returns with w = 1 when
\* get_next_game gives None, ends with the error get_next_game raises, and
\* else enters the loop over the games of the week
SimulateWhile ==
    LET r == get_next_game(sn_schedule, sn_w)
        Return(res, w) ==
            /\ sn_pc' = SnAt("idle", <<>>, 0)
            /\ sn_w' = w
            /\ sn_last' = SnCall("simulate_season", <<>>, res, <<>>)
    IN /\ sn_pc.at = "while"
       /\ IF ~(sn_w <= no_of_games(sn_schedule)) THEN Return("ok", sn_w)
          ELSE IF r.res # "ok" THEN Return(r.res, sn_w)
          ELSE IF r.ret = <<>> THEN Return("ok", 1)
          ELSE /\ sn_pc' = IF r.ret[1] = <<>> THEN sn_pc ELSE SnAt("for", r.ret[1], 1)
               /\ UNCHANGED <<sn_w, sn_last>>
       /\ UNCHANGED <<sn_teams, sn_schedule, sn_delays, sn_played, sn_runs>>
       /\ UNCHANGED <<step_vars, pt_vars, tm_vars>>
\* one game of the week (lines 218-254): the game is simulated, its result
\* goes to the two teams and their players, and w is raised by one. The
\* teams of these seasons have players, so that no update of a team fails.
SimulateGame ==
    /\ sn_pc.at = "for"
    /\ sn_played' = Append(sn_played, sn_pc.week[sn_pc.g])
    /\ sn_w' = sn_w + 1
    /\ sn_pc' = IF sn_pc.g < Len(sn_pc.week) THEN SnAt("for", sn_pc.week, sn_pc.g + 1)
                 ELSE SnAt("while", <<>>, 0)
    /\ UNCHANGED <<sn_teams, sn_schedule, sn_last, sn_delays, sn_runs>>
    /\ UNCHANGED <<step_vars, pt_vars, tm_vars>>
\* a season on which simulate_season has not been called yet
PreSeason == sn_pc.at = "idle" /\ sn_runs = 0 /\ sn_delays < MaxPreDelays
SimulateStep == SimulateWhile \/ SimulateGame
SimulateNext ==
    \/ PreSeason /\ \E orig_week, new_week \in 1..Len(sn_schedule) : DelayWeek(orig_week, new_week)
    \/ PreSeason /\ \E orig_week \in 1..Len(sn_schedule) : DelayWeekToEnd(orig_week)
    \/ SimulateSeason
    \/ SimulateWhile
    \/ SimulateGame
\* a call that has begun runs on: nothing else takes part in it
SpecSimulate == InitSeason /\ [][SimulateNext]_vars /\ WF_vars(SimulateStep)

\* a Team after Team.__init__ with one player, and the calls on it
TmTable == [array |-> tm_statistics.array, count |-> tm_statistics.count, res |-> "ok"]
TmStore(t) == [array |-> t.array, count |-> t.count]
InitTeam ==
    /\ StepInit
    /\ TABLE_SIZES = <<5, 13>>
    /\ PtInit
    /\ SnIdle
    /\ tm_statistics = TmStore(reset_stats(NewTable))
    /\ tm_results = <<>>
    /\ tm_players = <<0>>
    /\ tm_count = 0
    /\ tm_made = <<>>
    /\ tm_last = SnCall("init", <<>>, reset_stats(NewTable).res, <<>>)

\* team[statistic] = value; the calls made are those of simulate_season for
\* the result of a game, team[statistic] = team[statistic] + 1
TmSetItem(statistic, value) ==
    LET r == TeamSetItem(TmTable, tm_results, tm_players, statistic, value)
    IN /\ statistic \in ResultKeys => tm_count < MaxUpdates
       /\ tm_statistics' = TmStore(r.t)
       /\ tm_results' = r.queue
       /\ tm_players' = r.players
       /\ tm_count' = IF statistic \in ResultKeys THEN tm_count + 1 ELSE tm_count
       /\ tm_made' = IF statistic \in ResultKeys /\ r.res = "ok"
                     THEN Append(tm_made, GameResult(statistic)) ELSE tm_made
       /\ tm_last' = SnCall("__setitem__", <<statistic, value>>, r.res, <<>>)
       /\ UNCHANGED <<step_vars, pt_vars, sn_vars>>

\* remove_player(player) for the first player of the team
TmRemovePlayer ==
    /\ tm_players # <<>>
    /\ tm_players' = Tail(tm_players)
    /\ tm_last' = SnCall("remove_player", <<>>, "ok", <<>>)
    /\ UNCHANGED <<tm_statistics, tm_results, tm_count, tm_made>>
    /\ UNCHANGED <<step_vars, pt_vars, sn_vars>>

\* reset_stats(): a new queue, every other statistic 0
TmResetStats ==
    /\ tm_statistics' = TmStore(reset_stats(TmTable))
    /\ tm_results' = <<>>
    /\ tm_made' = <<>>
    /\ tm_last' = SnCall("reset_stats", <<>>, reset_stats(TmTable).res, <<>>)
    /\ UNCHANGED <<tm_players, tm_count>>
    /\ UNCHANGED <<step_vars, pt_vars, sn_vars>>

TmGetLastFive ==
    LET r == get_last_five_results(TmTable, tm_results)
    IN /\ tm_last' = SnCall("get_last_five_results", <<>>, r.res, r.ret)
       /\ UNCHANGED <<tm_statistics, tm_results, tm_players, tm_count, tm_made>>
       /\ UNCHANGED <<step_vars, pt_vars, sn_vars>>

TeamNext ==
    \/ \E statistic \in ResultKeys : TmSetItem(statistic, TmVal(TmTable, statistic) + 1)
    \/ TmRemovePlayer
    \/ TmResetStats
    \/ TmGetLastFive

SpecTeam == InitTeam /\ [][TeamNext]_vars

\* a Team through a season: Team.__init__ with the players of a roster, then
\* the games simulate_season processes for it
InitTeamSeason ==
    /\ StepInit
    /\ TABLE_SIZES = <<5, 13>>
    /\ PtInit
    /\ SnIdle
    /\ tm_statistics = TmStore(reset_stats(NewTable))
    /\ tm_results = <<>>
    /\ tm_players \in Rosters
    /\ tm_count = 0
    /\ tm_made = <<>>
    /\ tm_last = SnCall("init", <<>>, reset_stats(NewTable).res, <<>>)
TmGame(role, home_goals, away_goals) ==
    /\ tm_count < MaxGames
    /\ \E r \in {simulate_game(TmTable, tm_results, tm_players, role, home_goals, away_goals)} :
       /\ tm_count' = tm_count + 1
       /\ tm_statistics' = TmStore(r.t)
       /\ tm_results' = r.queue
       /\ tm_players' = r.players
       /\ tm_made' = IF r.res = "ok" THEN Append(tm_made, r.queue[Len(r.queue)]) ELSE tm_made
       /\ tm_last' = SnCall("game", <<role, home_goals, away_goals>>, r.res, <<>>)
       /\ UNCHANGED <<step_vars, pt_vars, sn_vars>>
TeamSeasonNext == \E role \in {"home", "away"}, home_goals, away_goals \in Scores : TmGame(role, home_goals, away_goals)
SpecTeamSeason == InitTeamSeason /\ [][TeamSeasonNext]_vars

(* ---------------------------- properties ------------------------------- *)
\* slots that are neither None nor (Sentinel, Sentinel)
IsLive(slot) == ~IsNone(slot) /\ slot # Tombstone
Live(arr) == Cardinality({x \in 1..Len(arr) : IsLive(arr[x])})
RECURSIVE LiveFrom(_, _, _)
LiveFrom(arr, x, field) ==
    IF x > Len(arr) THEN <<>>
    ELSE IF IsLive(arr[x]) THEN <<arr[x][field]>> \o LiveFrom(arr, x + 1, field)
    ELSE LiveFrom(arr, x + 1, field)
LastSize(sizes) == sizes[Len(sizes)]
Found(v) == [res |-> "ok", ret |-> <<v>>]
\* the positions a lookup of key examines before the one it returns
RECURSIVE PathBefore(_, _, _, _)
PathBefore(arr, position, step_size, target) ==
    IF position = target THEN {}
    ELSE {position} \cup PathBefore(arr, (position + step_size) % Len(arr), step_size, target)
LookupPassesTombstone(arr, key) ==
    LET p == _hashy_probe(arr, key, FALSE)
    IN /\ p.kind = "pos"
       /\ \E q \in PathBefore(arr, hash(key, Len(arr)), hash2(key), p.pos) : arr[q + 1] = Tombstone

\* C1: round trip. In the state a set(k, v) that returned without error
\* leaves behind, get(k) returns v, also when that set grew the table.
C1_RoundTrip ==
    (last.op = "set" /\ last.res = "ok") => GetItem(array, last.key) = Found(last.val)

\* C2: latest value. Every key that was set and not deleted since is looked
\* up with the value of its most recent set, whatever calls came in between.
C2_LatestValue ==
    \A k \in Keys : \A v \in Values : latest[k] = WasSet(v) => GetItem(array, k) = Found(v)

\* C3: deletion removes reachability. In the state a delete(k) leaves
\* behind, and until k is set again, get(k) fails with KeyError.
C3_DeletedNotFound ==
    \A k \in Keys : latest[k] = Deleted => GetItem(array, k).res = "KeyError"

\* C4: tombstone transparency. delete(A) leaves the outcome of get(B)
\* unchanged for every other key B, stored or not, also when the lookup of B
\* passes through the slot that delete(A) turned into a tombstone.
C4_TombstoneTransparent ==
    [][last'.op = "delete" =>
        \A b \in Keys \ {last'.key} : GetItem(array', b) = GetItem(array, b)]_vars
\* delete(A) tombstoned a slot that the lookup of a stored key B passes
C4_Witness ==
    /\ last.op = "delete"
    /\ last.pos # -1
    /\ \E b \in Keys \ {last.key} :
          /\ GetItem(array, b).res = "ok"
          /\ last.pos \in PathBefore(array, hash(b, Len(array)), hash2(b),
                                     _hashy_probe(array, b, FALSE).pos)

\* C5 as stated: a set that wrote its entry changes the capacity iff count
\* then exceeds 2/3 of the capacity; the new capacity is the next ladder
\* entry and growth leaves count alone; the [5, 13] scenario ends at
\* capacity 5 after three inserts and capacity 13, length 4 after four.
GrowthStep ==
    Len(array') # Len(array) =>
        /\ ~RehashFails(TABLE_SIZES, array)
        /\ Len(array') = TABLE_SIZES[IndexOf(TABLE_SIZES, Len(array)) + 1]
        /\ count' = CountAfterWrite(array, count, last'.pos)
ScenarioOutcome ==
    /\ scen = 3 => Len(array) = 5
    /\ scen = 4 => (Len(array) = 13 /\ count = 4)
C5_GrowthIff ==
    [][(last'.op = "set" /\ last'.wrote) =>
        /\ (Len(array') # Len(array)) <=> (3 * count' > 2 * Len(array))
        /\ GrowthStep
        /\ ScenarioOutcome']_vars
\* C5 amended: as above, except that on the last ladder entry the capacity
\* does not change (the call fails instead).
C5_GrowthIffNotLast ==
    [][(last'.op = "set" /\ last'.wrote) =>
        /\ (Len(array') # Len(array))
              <=> (3 * count' > 2 * Len(array) /\ Len(array) # LastSize(TABLE_SIZES))
        /\ GrowthStep
        /\ ScenarioOutcome']_vars
\* the four scenario inserts were made and the fourth grew the table
C5_Witness == scen = 4 /\ last.op = "set" /\ last.key = KeyGH /\ Len(array) = 13

\* C6: load factor. After a set that returned without error,
\* count / capacity <= 2/3, for every ladder.
C6_LoadFactor ==
    (last.op = "set" /\ last.res = "ok") => 3 * count <= 2 * Len(array)

\* C7: count never exceeds the capacity, failing calls included.
C7_CountWithinCapacity == count <= Len(array)
\* a failing set left count equal to the capacity
C7_Witness == last.op = "set" /\ last.res = "IndexError" /\ count = Len(array)

\* C8: as long as every delete targeted a stored key, count is the number
\* of live slots.
C8_CountIsLive == ~stray => count = Live(array)
\* sets, a growth and a delete of a stored key happened, a tombstone is there
C8_Witness ==
    /\ ~stray
    /\ last.op = "delete"
    /\ Len(array) # TABLE_SIZES[1]
    /\ Live(array) > 0
    /\ \E x \in 1..Len(array) : array[x] = Tombstone

\* C9: keys() and values() return exactly the live entries in array order,
\* so no tombstone marker is in them and, while no delete was stray, their
\* length is count.
C9_KeysValuesLive ==
    /\ last.op = "keys" => last.ret = LiveFrom(array, 1, 2)
    /\ last.op = "values" => last.ret = LiveFrom(array, 1, 3)
    /\ (last.op \in {"keys", "values"} /\ ~stray) => Len(last.ret) = count

C11_NeverFull ==
    (last.op = "set" /\ TABLE_SIZES = <<5, 13>> /\ Len(array) # LastSize(TABLE_SIZES))
        => last.res # "FullError"

\* C12: a delete of a key that is not stored returns without error, leaves
\* every slot and the capacity as they were, and lowers count by exactly 1,
\* below zero too.
C12_DeleteAbsent ==
    [][(last'.op = "delete" /\ ~Stored(array, last'.key)) =>
        /\ last'.res = "ok"
        /\ array' = array
        /\ count' = count - 1]_vars
\* a delete of an absent key took count below zero next to a stored entry
C12_Witness ==
    /\ last.op = "delete"
    /\ last.pos = -1
    /\ count < 0
    /\ Live(array) > 0

\* C13: contains(k) never fails with an error; it returns true when a live
\* entry with key k is stored and false otherwise.
C13_Contains ==
    (last.op = "contains" /\ last.key \in Keys) =>
        /\ last.res = "ok"
        /\ last.ret = <<Stored(array, last.key)>>

\* C14: the capacity is always an entry of the ladder and never decreases,
\* and no call other than set changes it.
OnLadder(sizes, n) == \E i \in 1..Len(sizes) : sizes[i] = n
C14_CapacityMonotone ==
    [][/\ OnLadder(TABLE_SIZES, Len(array))
       /\ OnLadder(TABLE_SIZES, Len(array'))
       /\ Len(array') >= Len(array)
       /\ last'.op # "set" => Len(array') = Len(array)]_vars
\* a table grown twice, to its last capacity, on which a delete then ran
C14_Witness ==
    /\ TABLE_SIZES = <<3, 5, 13>>
    /\ Len(array) = 13
    /\ last.op = "delete"

\* C15: every keyed call (get, set, delete, contains) with the empty string
\* as key fails with the error of reading its first character (IndexError)
\* and leaves the slots and count as they were.
C15_EmptyKeyRejected ==
    [][(last'.key = EmptyKey /\ last'.op \in {"get", "set", "delete", "contains"}) =>
        /\ last'.res = "IndexError"
        /\ array' = array
        /\ count' = count]_vars

(* ---------------------------- HashyPerfectionTable properties ---------- *)
\* what get(key) gives on this array: how it ends and what it returns
PtLook(arr, key) == LET r == PtGetItem(arr, 0, key) IN <<r.res, r.msg, r.ret>>
Occupied(arr) == {x \in 1..Len(arr) : ~IsNone(arr[x])}

\* C16: fixed-domain round trip. For every enum value k and every value v,
\* set(k, v) succeeds, a following get(k) returns v, and get of every other
\* enum value gives what it gave before.
C16_FixedRoundTrip ==
    [][(pt_last'.op = "set" /\ pt_last'.key \in DomainKeys) =>
        /\ pt_last'.res = "ok"
        /\ PtLook(pt_array', pt_last'.key) = <<"ok", "", <<pt_last'.val>> >>
        /\ \A k \in DomainKeys \ {pt_last'.key} : PtLook(pt_array', k) = PtLook(pt_array, k)]_vars
\* a set stored an enum value while another enum value was stored
C16_Witness ==
    /\ pt_last.op = "set"
    /\ pt_last.key \in DomainKeys
    /\ pt_calls = MaxPtCalls
    /\ pt_count = 2
    /\ Cardinality(Occupied(pt_array)) = 2

\* C17: perfect hash. The nine enum values hash to pairwise distinct
\* indices, TACKLES 0, WEIGHT 1, WEAK_FOOT_ABILITY 2, GAMES_PLAYED 3,
\* GOALS 4, STAR_SKILL 6, ASSISTS 8, INTERCEPTIONS 11, HEIGHT 12, each the
\* index at which the validation expects that value, and every stored entry
\* lies at the index of its key.
C17_Index ==
    [TACKLES |-> 0, WEIGHT |-> 1, WEAK_FOOT_ABILITY |-> 2, GAMES_PLAYED |-> 3, GOALS |-> 4,
     STAR_SKILL |-> 6, ASSISTS |-> 8, INTERCEPTIONS |-> 11, HEIGHT |-> 12]
C17_PerfectHash ==
    /\ \A n \in DOMAIN PlayerStats :
          /\ pt_hash(EnumValue(n)) = C17_Index[n]
          /\ ~DeadPosition(C17_Index[n])
          /\ Expected[C17_Index[n]] = n
    /\ \A m, n \in DOMAIN PlayerStats : m # n => pt_hash(EnumValue(m)) # pt_hash(EnumValue(n))
    /\ \A x \in Occupied(pt_array) :
          pt_array[x][2] \in DomainKeys /\ pt_hash(pt_array[x][2]) = x - 1
\* several enum values are stored, each in its own slot
C17_Witness ==
    /\ pt_last.op = "set"
    /\ pt_last.res = "ok"
    /\ Cardinality(Occupied(pt_array)) >= 2

\* C18: fixed-domain rejection. get, set and delete with a non-empty key
\* that is not an enum value fail with the KeyError of the validation and
\* leave the slots and count as they were, also when the key hashes to the
\* index of a stored enum value.
C18_FixedRejection ==
    [][(/\ pt_last'.op \in {"get", "set", "delete"}
        /\ pt_last'.key \notin DomainKeys
        /\ pt_last'.key.text # EmptyKey) =>
        /\ pt_last'.res = "KeyError"
        /\ pt_last'.msg = NotAKey
        /\ pt_array' = pt_array
        /\ pt_count' = pt_count]_vars
\* set("a", .) was rejected while the entry of "Assists", at the index "a"
\* hashes to, is stored
C18_Witness ==
    /\ pt_last.op = "set"
    /\ pt_last.key = OtherString(<<97>>)
    /\ pt_last.res = "KeyError"
    /\ ~IsNone(pt_array[pt_hash(pt_last.key) + 1])

\* C19: get(k) and delete(k) for an enum value k whose slot is None fail
\* with the "not found" KeyError and leave the slots and count as they were.
C19_EmptySlotNotFound ==
    [][(/\ pt_last'.op \in {"get", "delete"}
        /\ pt_last'.key \in DomainKeys
        /\ IsNone(pt_array[pt_hash(pt_last'.key) + 1])) =>
        /\ pt_last'.res = "KeyError"
        /\ pt_last'.msg = NotFoundMsg
        /\ pt_array' = pt_array
        /\ pt_count' = pt_count]_vars

\* C20: count is the number of slots that are not None, in every state.
C20_CountIsOccupied == pt_count = Cardinality(Occupied(pt_array))

\* C21: keys() and values() of the fixed-domain table return without error
\* the key, respectively the value, of every slot that is not None, each
\* once, in array order, whatever its index; their number is count.
C21_PtKeysValues ==
    /\ pt_last.op = "keys" =>
          /\ pt_last.res = "ok"
          /\ pt_last.ret = PtCollect(pt_array, 1, Len(pt_array), 2)
          /\ Len(pt_last.ret) = pt_count
    /\ pt_last.op = "values" =>
          /\ pt_last.res = "ok"
          /\ pt_last.ret = PtCollect(pt_array, 1, Len(pt_array), 3)
          /\ Len(pt_last.ret) = pt_count

(* ---------------------------- Season properties ------------------------ *)
\* the games of a schedule, week after week
RECURSIVE Flatten(_)
Flatten(schedule) == IF schedule = <<>> THEN <<>> ELSE Head(schedule) \o Flatten(Tail(schedule))
TeamsOf(teams) == {teams[i] : i \in DOMAIN teams}
Plays(t, game) == t = game[1] \/ t = game[2]
Generated == sn_last.op = "_generate_schedule" /\ sn_last.res = "ok"

\* C25: in every week of the schedule _generate_schedule returns, each team
\* is in at most one game, as home or away.
C25_OncePerWeek ==
    Generated =>
        \A x \in DOMAIN sn_schedule : \A t \in TeamsOf(sn_teams) :
            Cardinality({g \in DOMAIN sn_schedule[x] : Plays(t, sn_schedule[x][g])}) <= 1
\* a schedule for the largest number of teams, with a week of several games
C25_Witness ==
    /\ Generated
    /\ Len(sn_teams) = MaxTeams
    /\ \E x \in DOMAIN sn_schedule : Len(sn_schedule[x]) >= 2

\* C26: the call ends for every number of teams; the schedule it returns
\* has N * (N - 1) games, every ordered pair of distinct teams is the (home,
\* away) of exactly one of them, and the second half of the weeks is the
\* first half with home and away swapped.
C26_AllGamesOnce ==
    /\ sn_last.op = "_generate_schedule" => sn_last.res \in {"ok", "ValueError"}
    /\ Generated =>
          LET all == Flatten(sn_schedule)
              N == Len(sn_teams)
              half == Len(sn_schedule) \div 2
          IN /\ Len(all) = N * (N - 1)
             /\ \A a, b \in TeamsOf(sn_teams) :
                   a # b => Cardinality({g \in DOMAIN all : all[g] = <<a, b>>}) = 1
             /\ Len(sn_schedule) = 2 * half
             /\ \A x \in 1..half :
                   /\ Len(sn_schedule[half + x]) = Len(sn_schedule[x])
                   /\ \A g \in DOMAIN sn_schedule[x] :
                         sn_schedule[half + x][g] = <<sn_schedule[x][g][2], sn_schedule[x][g][1]>>
\* C22: delay_week_of_games(orig_week, new_week) with valid weeks
\* orig_week # new_week, new_week later or earlier: the week that was at
\* position orig_week of the schedule is at position new_week afterwards.
C22_DelayMovesWeek ==
    [][(/\ sn_last'.op = "delay_week_of_games"
        /\ sn_delays' = sn_delays + 1
        /\ Len(sn_last'.args) = 2
        /\ sn_last'.args[1] # sn_last'.args[2]) =>
        /\ sn_last'.args[2] \in DOMAIN sn_schedule'
        /\ sn_schedule'[sn_last'.args[2]] = sn_schedule[sn_last'.args[1]]]_vars

\* the week that holds the w-th game of the schedule
RECURSIVE WeekOfGame(_, _)
WeekOfGame(schedule, w) ==
    IF w <= Len(Head(schedule)) THEN Head(schedule) ELSE WeekOfGame(Tail(schedule), w - Len(Head(schedule)))
\* C23: get_next_game returns the week that holds game number w while
\* w <= no_of_games(), and returns None without raising when w is larger,
\* also on an empty schedule.
C23_NextGameOrNone ==
    sn_last.op = "get_next_game" =>
        /\ sn_last.res = "ok"
        /\ sn_last.ret = IF sn_w \in 1..no_of_games(sn_schedule)
                         THEN <<WeekOfGame(sn_schedule, sn_w)>> ELSE <<>>

(* ---------------------------- Team properties -------------------------- *)
\* the last n elements of a sequence, all of it if it is shorter
LastN(seq, n) == IF Len(seq) <= n THEN seq ELSE SubSeq(seq, Len(seq) - n + 1, Len(seq))
\* C24: after n result updates (WINS, LOSSES or DRAWS set through
\* __setitem__) get_last_five_results returns None if n = 0, else the last
\* min(n, 5) results, oldest first; the queue never holds more than 5.
C24_LastFive ==
    /\ Len(tm_results) <= 5
    /\ tm_last.op = "get_last_five_results" =>
          /\ tm_last.res = "ok"
          /\ tm_last.ret = IF tm_made = <<>> THEN <<>> ELSE <<LastN(tm_made, 5)>>

(* ---------------------------- probing and growth properties ------------ *)
\* the probe path of key, followed for n steps from position: does it come
\* to a None slot before it comes to a slot that holds key
RECURSIVE EmptyBeforeKey(_, _, _, _, _)
EmptyBeforeKey(arr, key, position, step_size, n) ==
    IF n = 0 THEN FALSE
    ELSE IF IsNone(arr[position + 1]) THEN TRUE
    ELSE IF arr[position + 1][2] = key THEN FALSE
    ELSE EmptyBeforeKey(arr, key, (position + step_size) % Len(arr), step_size, n - 1)
\* C27: a lookup whose probe path comes to an Empty slot before it comes to
\* the key stops there and reports the key absent; no later slot of the
\* path is examined.
C27_LookupStopsAtEmpty ==
    (/\ last.op = "get"
     /\ EmptyBeforeKey(array, last.key, hash(last.key, Len(array)), hash2(last.key), Len(array))) =>
        last.res = "KeyError"

\* the first position on the probe path of key, followed for n steps, whose
\* slot is None or a tombstone; -1 if there is none
RECURSIVE FirstFree(_, _, _, _, _)
FirstFree(arr, key, position, step_size, n) ==
    IF n = 0 THEN -1
    ELSE IF IsNone(arr[position + 1]) \/ arr[position + 1] = Tombstone THEN position
    ELSE FirstFree(arr, key, (position + step_size) % Len(arr), step_size, n - 1)
\* C28: set(k, v) for a key k that is not stored writes (k, v) into the
\* first slot on the probe path of k that is Empty or a tombstone.
C28_InsertReclaimsTombstone ==
    [][(/\ last'.op = "set"
        /\ Holding(array, last'.key) = {}
        /\ FirstFree(array, last'.key, hash(last'.key, Len(array)), hash2(last'.key), Len(array)) # -1) =>
        /\ last'.wrote
        /\ last'.pos = FirstFree(array, last'.key, hash(last'.key, Len(array)), hash2(last'.key), Len(array))]_vars

\* C29: right after a growth the array holds live entries and Empty slots
\* only, no tombstone.
C29_GrowthDropsTombstones ==
    [][Len(array') # Len(array) => \A x \in 1..Len(array') : array'[x] # Tombstone]_vars

\* the array a set has written its entry into, before any growth
Written == [array EXCEPT ![last'.pos + 1] = <<"tuple", last'.key, last'.val>>]
\* C30: a growth is a positional copy. Every live entry is at the index it
\* had before the growth, with its key and value, and the growth leaves
\* count as the write of the entry made it.
C30_PositionalCopy ==
    [][Len(array') # Len(array) =>
        /\ last'.op = "set"
        /\ Len(array') > Len(array)
        /\ \A x \in 1..Len(array) : IsLive(Written[x]) => array'[x] = Written[x]
        /\ count' = IF IsNone(array[last'.pos + 1]) THEN count + 1 ELSE count]_vars
\* a set has just grown the table, and a live entry stands at an index that
\* is not the start of its probe path at the new capacity
C30_Witness ==
    /\ last.op = "set"
    /\ last.res = "ok"
    /\ IndexOf(TABLE_SIZES, Len(array)) > 1
    /\ 3 * count > 2 * TABLE_SIZES[IndexOf(TABLE_SIZES, Len(array)) - 1]
    /\ last.pos < TABLE_SIZES[IndexOf(TABLE_SIZES, Len(array)) - 1]
    /\ \E x \in 1..Len(array) : IsLive(array[x]) /\ hash(array[x][2], Len(array)) # x - 1

\* C31: a probe that has examined capacity slots without result ends an
\* insert with FullError and a lookup with KeyError: get ends with a value
\* or with KeyError, never with another error, also for a key stored in a
\* slot that its probe path does not visit; a set that wrote nothing ended
\* with FullError.
C31_ProbeExhaustion ==
    /\ last.op = "get" => last.res \in {"ok", "KeyError"}
    /\ (last.op = "set" /\ ~last.wrote) => last.res = "FullError"

\* the positions the probe path of key visits within capacity steps
OnPath(arr, key) == {(hash(key, Len(arr)) + i * hash2(key)) % Len(arr) : i \in 0..(Len(arr) - 1)}
\* C32: delete(k) scans the array from index 0: the lowest slot whose key
\* is k, on the probe path of k or not, becomes a tombstone; every other
\* slot and the capacity stay as they were.
C32_DeleteScansArray ==
    [][last'.op = "delete" =>
        /\ Len(array') = Len(array)
        /\ \A x \in 1..Len(array) :
              array'[x] = IF /\ ~IsNone(array[x])
                             /\ array[x][2] = last'.key
                             /\ \A y \in 1..(x - 1) : IsNone(array[y]) \/ array[y][2] # last'.key
                          THEN Tombstone ELSE array[x]]_vars
\* a delete tombstoned a slot that the probe path of its key does not visit
C32_Witness ==
    /\ last.op = "delete"
    /\ last.pos # -1
    /\ array[last.pos + 1] = Tombstone
    /\ last.pos \notin OnPath(array, last.key)

\* C33: size_index is the position of the capacity in the ladder,
\* TABLE_SIZES[size_index] = table_size (0-based), and never decreases.
C33_SizeIndexTracksCapacity ==
    /\ size_index \in 0..(Len(TABLE_SIZES) - 1)
    /\ TABLE_SIZES[size_index + 1] = Len(array)

\* C34: set(k, v) for a key k that is stored, also after a growth,
\* overwrites the slot of k: afterwards exactly one slot holds k and count
\* is what it was. count rises by exactly 1 only when k was not stored.
C34_UpdateInPlace ==
    [][last'.op = "set" =>
        /\ Stored(array, last'.key) =>
              /\ last'.wrote
              /\ Cardinality(Holding(array', last'.key)) = 1
              /\ count' = count
        /\ count' # count => (~Stored(array, last'.key) /\ count' = count + 1)]_vars

(* ---------------------------- dead slots, is_full ----------------------- *)
C35_Dead == {5, 7, 9, 10}
\* C35: the slots 5, 7, 9 and 10 of the fixed-domain table are None in
\* every state, and a get, set or delete whose key hashes to one of them
\* is rejected with the KeyError of the validation, slots and count as
\* they were.
C35_DeadSlots ==
    [][/\ \A d \in C35_Dead : IsNone(pt_array'[d + 1])
       /\ (/\ pt_last'.op \in {"get", "set", "delete"}
           /\ pt_last'.key.text # EmptyKey
           /\ pt_hash(pt_last'.key) \in C35_Dead) =>
           /\ pt_last'.res = "KeyError"
           /\ pt_last'.msg = NotAKey
           /\ pt_array' = pt_array
           /\ pt_count' = pt_count]_vars
\* a set with a key that hashes to a dead slot was rejected on a table that
\* holds an entry
C35_Witness ==
    /\ pt_last.op = "set"
    /\ pt_last.key.text # EmptyKey
    /\ pt_hash(pt_last.key) \in C35_Dead
    /\ pt_last.res = "KeyError"
    /\ Occupied(pt_array) # {}

\* C36: a set that fails, with FullError or with the error of a growth
\* past the ladder, leaves the slots, count and the capacity as they were
\* before the call.
C36_FailedSetChangesNothing ==
    [][(last'.op = "set" /\ last'.res \in {"FullError", "IndexError"}) =>
        /\ array' = array
        /\ count' = count]_vars

\* C37: is_full() of the fixed-domain table is false in every reachable state
\* of a player's table: count never exceeds 9, the number of slots a key can
\* reach, so it never equals the 13 slots, also with all nine keys stored.
C37_NeverFull ==
    /\ ~pt_is_full(pt_array, pt_count)
    /\ pt_count <= 9
    /\ pt_count <= Cardinality(Occupied(pt_array))
    /\ Cardinality(Occupied(pt_array)) <= Cardinality(DomainKeys)
C37_Witness ==
    /\ pt_last.op = "set"
    /\ pt_last.res = "ok"
    /\ pt_count = 9
    /\ \A k \in DomainKeys : PtGetItem(pt_array, pt_count, k).res = "ok"

\* C38: delay_week_of_games preserves the weeks of the schedule: for a valid
\* orig_week and a new_week that is None or a valid week, new_week = orig_week
\* included, the schedule keeps its length, holds the moved week at one
\* position and the other weeks in their former order around it; with
\* new_week None the moved week is the last one.
C38_Without(schedule, pos) ==
    [x \in 1..(Len(schedule) - 1) |-> IF x < pos THEN schedule[x] ELSE schedule[x + 1]]
C38_DelayPreservesWeeks ==
    [][sn_last'.op = "delay_week_of_games" =>
        LET orig_week == sn_last'.args[1]
            ToEnd == Len(sn_last'.args) = 1
        IN /\ Len(sn_schedule') = Len(sn_schedule)
           /\ \E pos \in 1..Len(sn_schedule') :
                 /\ ToEnd => pos = Len(sn_schedule')
                 /\ sn_schedule'[pos] = sn_schedule[orig_week]
                 /\ C38_Without(sn_schedule', pos) = C38_Without(sn_schedule, orig_week)]_vars

\* C39: simulate_season on a fresh season (w = 1) whose teams all have
\* players terminates; it simulates every game of the schedule exactly once,
\* week by week in schedule order, and ends with w = no_of_games() + 1; a
\* second call simulates nothing.
RECURSIVE C39_Games(_, _)
C39_Games(schedule, x) == IF x > Len(schedule) THEN <<>> ELSE schedule[x] \o C39_Games(schedule, x + 1)
C39_Returned == sn_pc.at = "idle" /\ sn_last.op = "simulate_season"
C39_InOrder ==
    /\ Len(sn_played) <= Len(C39_Games(sn_schedule, 1))
    /\ sn_played = SubSeq(C39_Games(sn_schedule, 1), 1, Len(sn_played))
    /\ sn_runs > 0 => sn_w = Len(sn_played) + 1
    /\ C39_Returned =>
          /\ sn_last.res = "ok"
          /\ sn_played = C39_Games(sn_schedule, 1)
          /\ sn_w = no_of_games(sn_schedule) + 1
C39_SimulateSeason == []C39_InOrder /\ ((sn_pc.at # "idle") ~> C39_Returned)
C39_Witness ==
    /\ C39_Returned
    /\ sn_runs = 2
    /\ Len(sn_schedule) >= 2
    /\ sn_played = C39_Games(sn_schedule, 1)

\* C40: after every game processed by simulate_season a team has
\* GAMES_PLAYED = WINS + DRAWS + LOSSES and GOALS_DIFFERENCE = GOALS_FOR -
\* GOALS_AGAINST, and each of its players' GAMES_PLAYED equals the team's
\* GAMES_PLAYED.
C40_Stat(statistic) == GetItem(tm_statistics.array, statistic).ret[1]
C40_Processed == tm_last.op = "game" /\ tm_last.res = "ok"
C40_Sums ==
    /\ C40_Stat(TeamStats.GAMES_PLAYED)
          = C40_Stat(TeamStats.WINS) + C40_Stat(TeamStats.DRAWS) + C40_Stat(TeamStats.LOSSES)
    /\ C40_Stat(TeamStats.GOALS_DIFFERENCE)
          = C40_Stat(TeamStats.GOALS_FOR) - C40_Stat(TeamStats.GOALS_AGAINST)
C40_SeasonStatistics ==
    C40_Processed =>
        /\ C40_Sums
        /\ \A p \in DOMAIN tm_players : tm_players[p] = C40_Stat(TeamStats.GAMES_PLAYED)
\* C40, amended: the two sums hold after every game, and the game raises
\* each player's GAMES_PLAYED by one as it raises the team's, so that the
\* two are equal after the game exactly if they were equal before it.
C40_SeasonStatisticsFromStart ==
    [][(tm_last'.op = "game" /\ tm_last'.res = "ok") =>
        /\ C40_Sums'
        /\ C40_Stat(TeamStats.GAMES_PLAYED)' = C40_Stat(TeamStats.GAMES_PLAYED) + 1
        /\ DOMAIN tm_players' = DOMAIN tm_players
        /\ \A p \in DOMAIN tm_players : tm_players'[p] = tm_players[p] + 1]_vars
C40_Witness ==
    /\ C40_Processed
    /\ tm_players = <<2, 2>>
    /\ C40_Stat(TeamStats.GAMES_PLAYED) = 2
    /\ C40_Stat(TeamStats.WINS) = 1
    /\ C40_Stat(TeamStats.GOALS_AGAINST) = 1
    /\ C40_Stat(TeamStats.GOALS_DIFFERENCE) = 0
====
